---- MODULE Spec2Model ----
(***************************************************************************)
(* Model of src/src/log_entry.rs: the Raft log entry (term + optional      *)
(* command), its JSON encoding (to_json), its decoding (TryFrom / From)    *)
(* and its equality.  The operations are pure functions; the state machine *)
(* draws an input, applies the operations to it and records the results.   *)
(*                                                                         *)
(* The custom command type T is instantiated with the PogChamp type of the *)
(* test module (one unsigned payload).  usize is taken to be 64 bits wide, *)
(* so the cast `as usize` of an as_u64 result is the identity.             *)
(***************************************************************************)
EXTENDS Integers, Sequences, FiniteSets, TLC

(* ---------------- bounds ---------------- *)
MaxId == 2
MaxTerm == 1
MaxPayload == 1
MaxLen == 2

Ids == 1..MaxId
Terms == 0..MaxTerm
Payloads == 0..MaxPayload

(* ---------------- Option / Result ---------------- *)
None == [tag |-> "None"]
Some(x) == [tag |-> "Some", val |-> x]
Ok(x) == [tag |-> "Ok", val |-> x]
\* Result<_, ()>: the error type of TryFrom is the unit type, so every
\* failure carries the same value.
Err == [tag |-> "Err", err |-> "()"]

(* ---------------- serde_json::Value ---------------- *)
JNull == [k |-> "null"]
JNum(n) == [k |-> "num", v |-> n]
JStr(s) == [k |-> "str", v |-> s]
JArr(seq) == [k |-> "arr", v |-> seq]
JObj(f) == [k |-> "obj", v |-> f]

\* An object with no member.
EmptyMap == [key \in {} |-> JNull]

\* serde_json::Map::insert
MapInsert(f, key, val) == [x \in (DOMAIN f) \cup {key} |-> IF x = key THEN val ELSE f[x]]

\* Value::get(&str): Some(member) for an object holding the key, else None.
JsonGet(j, key) ==
    IF j.k = "obj" /\ key \in DOMAIN j.v THEN Some(j.v[key]) ELSE None

\* Value::as_str
JsonAsStr(j) == IF j.k = "str" THEN Some(j.v) ELSE None

\* Value::as_u64: only a non-negative integer number converts.
JsonAsU64(j) == IF j.k = "num" /\ j.v >= 0 THEN Some(j.v) ELSE None

\* Value::as_array
JsonAsArray(j) == IF j.k = "arr" THEN Some(j.v) ELSE None

(* ---------------- HashSet iteration and sorting ---------------- *)
\* HashSet::iter visits the members once each, in an unspecified order:
\* every enumeration of the set is a possible outcome.
HashSetIter(S) ==
    {s \in [1..Cardinality(S) -> S] : \A i, j \in 1..Cardinality(S) : s[i] = s[j] => i = j}

RECURSIVE sort_unstable(_)
\* slice::sort_unstable: the same elements in ascending order.
sort_unstable(s) ==
    IF Len(s) = 0 THEN <<>>
    ELSE LET i == CHOOSE a \in 1..Len(s) : \A b \in 1..Len(s) : s[a] <= s[b]
         IN  <<s[i]>> \o sort_unstable([n \in 1..(Len(s) - 1) |-> IF n < i THEN s[n] ELSE s[n + 1]])

\* Vec<usize> -> JSON array of numbers (json! macro).
IdArray(s) == JArr([n \in 1..Len(s) |-> JNum(s[n])])

(* ---------------- the custom command type T = PogChamp ---------------- *)
T_command_type(custom) == "PogChamp"

T_to_json(custom) == JObj(MapInsert(EmptyMap, "payload", JNum(custom.payload)))

\* The decoder of the test (lines 507-514): the payload is read from the
\* "payload" member of the value it is handed, 0 when that is absent or not
\* an unsigned number.  Command::try_from hands it the whole entry value
\* (line 130), while LogEntry::to_json puts T's body under "command".
T_from_json(j) ==
    LET p == JsonGet(j, "payload")
        n == IF p.tag = "Some" THEN JsonAsU64(p.val) ELSE None
    IN  [payload |-> IF n.tag = "Some" THEN n.val ELSE 0]

(* ---------------- Command<T> ---------------- *)
SingleConfiguration(old, conf) ==
    [variant |-> "SingleConfiguration", old_configuration |-> old, configuration |-> conf]
JointConfiguration(old, new) ==
    [variant |-> "JointConfiguration", old_configuration |-> old, new_configuration |-> new]
Custom(t) == [variant |-> "Custom", custom |-> t]

Command_command_type(c) ==
    CASE c.variant = "SingleConfiguration" -> "SingleConfiguration"
      [] c.variant = "JointConfiguration" -> "JointConfiguration"
      [] c.variant = "Custom" -> T_command_type(c.custom)

\* The set Command::to_json iterates first / second, per variant.
FirstSet(c) ==
    CASE c.variant = "SingleConfiguration" -> c.configuration
      [] c.variant = "JointConfiguration" -> c.new_configuration
      [] OTHER -> {}
SecondSet(c) ==
    CASE c.variant = "SingleConfiguration" -> c.old_configuration
      [] c.variant = "JointConfiguration" -> c.old_configuration
      [] OTHER -> {}

ConfigBody(key1, arr1, key2, arr2) ==
    JObj(MapInsert(MapInsert(EmptyMap,
        key1, JObj(MapInsert(EmptyMap, "instanceIds", arr1))),
        key2, JObj(MapInsert(EmptyMap, "instanceIds", arr2))))

\* A to_json that files the sets under each other's keys.
Command_to_json_Swapped(c, it1, it2) ==
    CASE c.variant = "SingleConfiguration" ->
           ConfigBody("configuration", IdArray(sort_unstable(it2)),
                      "oldConfiguration", IdArray(sort_unstable(it1)))
      [] c.variant = "JointConfiguration" ->
           ConfigBody("newConfiguration", IdArray(sort_unstable(it2)),
                      "oldConfiguration", IdArray(it1))
      [] c.variant = "Custom" -> T_to_json(c.custom)

\* Command::to_json.  it1 and it2 are the iteration orders of the first and
\* second set.  SingleConfiguration sorts both vectors; JointConfiguration
\* sorts old_configuration only (line 73 sorts `configuration`, never
\* new_configuration), so new_configuration is emitted in iteration order.
Command_to_json(c, it1, it2) ==
    CASE c.variant = "SingleConfiguration" ->
           ConfigBody("configuration", IdArray(sort_unstable(it1)),
                      "oldConfiguration", IdArray(sort_unstable(it2)))
      [] c.variant = "JointConfiguration" ->
           ConfigBody("newConfiguration", IdArray(it1),
                      "oldConfiguration", IdArray(sort_unstable(it2)))
      [] c.variant = "Custom" -> T_to_json(c.custom)

\* decode_instance_ids: reads the member "instaceIds" (as spelled on line
\* 218), keeps the elements that are unsigned numbers, collects them into a
\* set; no such member, or not an array: the empty set.
decode_instance_ids(configuration) ==
    LET member == JsonGet(configuration, "instaceIds")
        arr == IF member.tag = "Some" THEN JsonAsArray(member.val) ELSE None
    IN  IF arr.tag = "Some"
        THEN {arr.val[n].v : n \in {m \in 1..Len(arr.val) : JsonAsU64(arr.val[m]).tag = "Some"}}
        ELSE {}

\* command.get(key).map(decode_instance_ids).unwrap_or_else(HashSet::new)
DecodeConfiguration(command, key) ==
    LET sub == JsonGet(command, key)
    IN  IF sub.tag = "Some" THEN decode_instance_ids(sub.val) ELSE {}

\* A try_from that treats a missing "command" like a missing sub-object.
Command_try_from_Lenient(j) ==
    LET t == JsonGet(j, "type")
        tag == IF t.tag = "Some" THEN JsonAsStr(t.val) ELSE None
        body == JsonGet(j, "command")
        command == IF body.tag = "Some" THEN body.val ELSE JNull
    IN  IF tag.tag = "None" THEN Err
        ELSE IF tag.val = "SingleConfiguration"
        THEN Ok(SingleConfiguration(DecodeConfiguration(command, "oldConfiguration"),
                                    DecodeConfiguration(command, "configuration")))
        ELSE IF tag.val = "JointConfiguration"
        THEN Ok(JointConfiguration(DecodeConfiguration(command, "oldConfiguration"),
                                   DecodeConfiguration(command, "newConfiguration")))
        ELSE Ok(Custom(T_from_json(j)))

\* impl TryFrom<&JsonValue> for Command<T>.  No "type" string: Err(()).  A
\* built-in tag: the command needs a "command" member (else Err(())), whose
\* sub-objects are decoded leniently.  Any other tag: T::from_json(json),
\* which returns a T and cannot fail; there is no registry lookup.
Command_try_from(j) ==
    LET t == JsonGet(j, "type")
        tag == IF t.tag = "Some" THEN JsonAsStr(t.val) ELSE None
        command == JsonGet(j, "command")
    IN  IF tag.tag = "None" THEN Err
        ELSE IF tag.val = "SingleConfiguration"
        THEN IF command.tag = "None" THEN Err
             ELSE Ok(SingleConfiguration(DecodeConfiguration(command.val, "oldConfiguration"),
                                         DecodeConfiguration(command.val, "configuration")))
        ELSE IF tag.val = "JointConfiguration"
        THEN IF command.tag = "None" THEN Err
             ELSE Ok(JointConfiguration(DecodeConfiguration(command.val, "oldConfiguration"),
                                        DecodeConfiguration(command.val, "newConfiguration")))
        ELSE Ok(Custom(T_from_json(j)))

\* impl PartialEq for Command<T>.  The built-in arms answer false against
\* another variant and compare both sets otherwise.  The Custom arm (line
\* 189) is `custom_comment.eq(other)`: it hands `other`, the whole Command,
\* to T's equality, with no test of other's variant and no false branch.
\* Against a Custom `other` T compares the two payloads.  Against a built-in
\* `other` the source fixes no outcome: the answer is T's (t_answer), true
\* or false.
Command_eq(self, other, t_answer) ==
    CASE self.variant = "SingleConfiguration" ->
           IF other.variant = "SingleConfiguration"
           THEN self.old_configuration = other.old_configuration
                /\ self.configuration = other.configuration
           ELSE FALSE
      [] self.variant = "JointConfiguration" ->
           IF other.variant = "JointConfiguration"
           THEN self.old_configuration = other.old_configuration
                /\ self.new_configuration = other.new_configuration
           ELSE FALSE
      [] self.variant = "Custom" ->
           IF other.variant = "Custom" THEN self.custom = other.custom ELSE t_answer

(* ---------------- LogEntry<T> ---------------- *)
LogEntry(term, command) == [term |-> term, command |-> command]

\* #[derive(PartialEq)] on LogEntry: the terms are equal and the commands are
\* both None, or both Some with equal commands.
LogEntry_eq(self, other, t_answer) ==
    /\ self.term = other.term
    /\ IF self.command.tag = "Some" /\ other.command.tag = "Some"
       THEN Command_eq(self.command.val, other.command.val, t_answer)
       ELSE self.command.tag = other.command.tag

\* A to_json that writes the command members for every entry.
LogEntry_to_json_Always(e, it1, it2) ==
    LET withTerm == MapInsert(EmptyMap, "term", JNum(e.term))
    IN  IF e.command.tag = "Some"
        THEN JObj(MapInsert(MapInsert(withTerm,
                 "type", JStr(Command_command_type(e.command.val))),
                 "command", Command_to_json(e.command.val, it1, it2)))
        ELSE JObj(MapInsert(MapInsert(withTerm, "type", JNull), "command", JNull))

\* LogEntry::to_json
LogEntry_to_json(e, it1, it2) ==
    LET withTerm == MapInsert(EmptyMap, "term", JNum(e.term))
    IN  IF e.command.tag = "Some"
        THEN JObj(MapInsert(MapInsert(withTerm,
                 "type", JStr(Command_command_type(e.command.val))),
                 "command", Command_to_json(e.command.val, it1, it2)))
        ELSE JObj(withTerm)

\* A decoder that gives up on the term when the command does not decode.
LogEntry_from_Strict(j) ==
    LET t == JsonGet(j, "term")
        n == IF t.tag = "Some" THEN JsonAsU64(t.val) ELSE None
        c == Command_try_from(j)
    IN  LogEntry(IF n.tag = "Some" /\ c.tag = "Ok" THEN n.val ELSE 0,
                 IF c.tag = "Ok" THEN Some(c.val) ELSE None)

\* impl From<&JsonValue> for LogEntry: term from "term" (0 when absent or not
\* an unsigned number); command = Command::try_from(json).ok().
LogEntry_from(j) ==
    LET t == JsonGet(j, "term")
        n == IF t.tag = "Some" THEN JsonAsU64(t.val) ELSE None
        c == Command_try_from(j)
    IN  LogEntry(IF n.tag = "Some" THEN n.val ELSE 0,
                 IF c.tag = "Ok" THEN Some(c.val) ELSE None)

(* ---------------- inputs ---------------- *)
Commands ==
    {SingleConfiguration(old, conf) : old \in SUBSET Ids, conf \in SUBSET Ids}
    \cup {JointConfiguration(old, new) : old \in SUBSET Ids, new \in SUBSET Ids}
    \cup {Custom([payload |-> p]) : p \in Payloads}

LogEntries == {LogEntry(t, c) : t \in Terms, c \in {None} \cup {Some(c) : c \in Commands}}

\* MapInsert of an optional member.
InsertOpt(f, key, opt) == IF opt.tag = "Some" THEN MapInsert(f, key, opt.val) ELSE f

\* Array elements: node ids and a number that is no u64.
JsonElems == {JNum(i) : i \in Ids} \cup {JNum(-1)}
JsonArrays == {JArr(s) : s \in UNION {[1..n -> JsonElems] : n \in 0..MaxLen}}

\* What may stand for a configuration sub-object: nothing, a non-object, an
\* object without "instanceIds", one whose "instanceIds" is no array, one
\* with an "instanceIds" array, one with an array under "instaceIds".
ConfigOpts ==
    {None, Some(JNum(0)), Some(JObj(EmptyMap)),
     Some(JObj(MapInsert(EmptyMap, "instanceIds", JStr("x")))),
     Some(JObj(MapInsert(EmptyMap, "instaceIds", JArr(<<JNum(1)>>))))}
    \cup {Some(JObj(MapInsert(EmptyMap, "instanceIds", a))) : a \in JsonArrays}

ConfigBodies ==
    {JObj(InsertOpt(InsertOpt(EmptyMap, k1, v1), "oldConfiguration", v2)) :
        k1 \in {"configuration", "newConfiguration"}, v1 \in ConfigOpts, v2 \in ConfigOpts}

TermOpts == {None, Some(JNum(-1)), Some(JStr("x"))} \cup {Some(JNum(t)) : t \in Terms}
\* The top-level "payload" member the custom decoder reads.
PayloadOpts == {None, Some(JStr("x"))} \cup {Some(JNum(p)) : p \in Payloads}
TypeOpts ==
    {None, Some(JNum(0))}
    \cup {Some(JStr(s)) : s \in {"SingleConfiguration", "JointConfiguration", "PogChamp", "DoesNotExist"}}

\* Values handed to the decoders: entries with a configuration body, entries
\* with any tag and no or a custom body, and values that are no object.
JsonInputs ==
    {JObj(InsertOpt(MapInsert(MapInsert(EmptyMap, "type", JStr(ty)), "command", body), "term", te)) :
        ty \in {"SingleConfiguration", "JointConfiguration"}, body \in ConfigBodies,
        te \in {None} \cup {Some(JNum(t)) : t \in Terms}}
    \cup {JObj(InsertOpt(InsertOpt(InsertOpt(InsertOpt(EmptyMap, "term", te), "type", ty),
                                   "command", co), "payload", pa)) :
        te \in TermOpts, ty \in TypeOpts, pa \in PayloadOpts,
        co \in {None, Some(JNull), Some(JObj(EmptyMap)),
                Some(JObj(MapInsert(EmptyMap, "payload", JStr("x"))))}
               \cup {Some(T_to_json([payload |-> p])) : p \in Payloads}}
    \cup {T_to_json([payload |-> p]) : p \in Payloads}
    \cup {JNull, JNum(0), JArr(<<>>)}

(* ---------------- state ---------------- *)
VARIABLES
    mode,       \* what the run does: "encode" (to_json, then decoding of the
                \* result), "decode" (decoding of a given value), "compare"
    entry,      \* the LogEntry encoded, or the left operand of ==
    other,      \* the right operand of ==
    json,       \* the JSON value: to_json's result, or the value to decode
    cmdResult,  \* Command::try_from(&json)
    decoded,    \* LogEntry::from(&json)
    eqResult,   \* entry == other
    done        \* the operations applied so far

vars == <<mode, entry, other, json, cmdResult, decoded, eqResult, done>>

NoEntry == LogEntry(0, None)

Init ==
    /\ mode \in {"encode", "decode", "compare"}
    /\ entry \in IF mode = "decode" THEN {NoEntry} ELSE LogEntries
    /\ other \in IF mode = "compare" THEN LogEntries ELSE {NoEntry}
    /\ json \in IF mode = "decode" THEN JsonInputs ELSE {JNull}
    /\ cmdResult = Err
    /\ decoded = NoEntry
    /\ eqResult = FALSE
    /\ done = {}

\* entry.to_json(), under every iteration order of the command's sets.
ToJson ==
    /\ mode = "encode"
    /\ "to_json" \notin done
    /\ \E it1 \in HashSetIter(IF entry.command.tag = "Some" THEN FirstSet(entry.command.val) ELSE {}),
          it2 \in HashSetIter(IF entry.command.tag = "Some" THEN SecondSet(entry.command.val) ELSE {}) :
            json' = LogEntry_to_json(entry, it1, it2)
    /\ done' = done \cup {"to_json"}
    /\ UNCHANGED <<mode, entry, other, cmdResult, decoded, eqResult>>

HaveJson == mode = "decode" \/ (mode = "encode" /\ "to_json" \in done)

\* Command::try_from(&json)
TryFrom ==
    /\ HaveJson
    /\ "try_from" \notin done
    /\ cmdResult' = Command_try_from(json)
    /\ done' = done \cup {"try_from"}
    /\ UNCHANGED <<mode, entry, other, json, decoded, eqResult>>

\* LogEntry::from(&json)
From ==
    /\ HaveJson
    /\ "from" \notin done
    /\ decoded' = LogEntry_from(json)
    /\ done' = done \cup {"from"}
    /\ UNCHANGED <<mode, entry, other, json, cmdResult, eqResult>>

\* entry == other, under either answer of T's equality to a built-in command.
Eq ==
    /\ mode = "compare"
    /\ "eq" \notin done
    /\ \E t_answer \in BOOLEAN : eqResult' = LogEntry_eq(entry, other, t_answer)
    /\ done' = done \cup {"eq"}
    /\ UNCHANGED <<mode, entry, other, json, cmdResult, decoded>>

Next == ToJson \/ TryFrom \/ From \/ Eq

Spec == Init /\ [][Next]_vars

(* ---------------- what the claims expect, read off the JSON value ---------------- *)
BuiltInTags == {"SingleConfiguration", "JointConfiguration"}

HasMember(j, key) == j.k = "obj" /\ key \in DOMAIN j.v

\* The "type" member is the string tag.
TypeIs(j, tag) == HasMember(j, "type") /\ j.v["type"] = JStr(tag)

\* The "term" member is an unsigned number.
TermIsUnsigned(j) == HasMember(j, "term") /\ j.v["term"].k = "num" /\ j.v["term"].v >= 0
TermAbsentOrNonNumeric(j) == ~HasMember(j, "term") \/ j.v["term"].k # "num"
ExpectedTerm(j) == IF TermIsUnsigned(j) THEN j.v["term"].v ELSE 0

\* The sub-object holds an "instanceIds" array.
HasIdArray(sub) == HasMember(sub, "instanceIds") /\ sub.v["instanceIds"].k = "arr"

\* The ids listed in a sub-object's "instanceIds" array.
ListedIds(sub) ==
    LET a == sub.v["instanceIds"].v
    IN  {a[n].v : n \in {m \in 1..Len(a) : a[m].k = "num" /\ a[m].v >= 0}}

\* The name of the first set's member, per built-in tag.
FirstKey(tag) == IF tag = "SingleConfiguration" THEN "configuration" ELSE "newConfiguration"

StrictlyAscending(a) == \A m, n \in 1..Len(a) : m < n => a[m].v < a[n].v

\* A command decoded from a built-in tag with the given sets.
BuiltIn(tag, old, first) ==
    IF tag = "SingleConfiguration" THEN SingleConfiguration(old, first)
    ELSE JointConfiguration(old, first)

(* ---------------- C1 ---------------- *)
\* C1 (as claimed): decoding the result of to_json with LogEntry::from yields
\* an entry equal to the original, for every entry.
C1_RoundTrip ==
    (mode = "encode" /\ {"to_json", "from"} \subseteq done) => decoded = entry

(* ---------------- C2 ---------------- *)
\* C2 (as claimed): decoding an entry with a built-in "type" whose body holds
\* "instanceIds" arrays yields Some command of that variant, whose sets hold
\* exactly the listed ids, and whose term is the "term" member.
C2_DecodeListedIds ==
    \A tag \in BuiltInTags :
        ( /\ "from" \in done
          /\ TypeIs(json, tag)
          /\ HasMember(json, "command")
          /\ HasMember(json.v["command"], FirstKey(tag))
          /\ HasMember(json.v["command"], "oldConfiguration")
          /\ HasIdArray(json.v["command"].v[FirstKey(tag)])
          /\ HasIdArray(json.v["command"].v["oldConfiguration"])
          /\ TermIsUnsigned(json) )
        => /\ decoded.term = json.v["term"].v
           /\ decoded.command =
                Some(BuiltIn(tag, ListedIds(json.v["command"].v["oldConfiguration"]),
                                  ListedIds(json.v["command"].v[FirstKey(tag)])))
           /\ Command_command_type(decoded.command.val) = tag

(* ---------------- C3 ---------------- *)
\* C3 (as claimed): every "instanceIds" array produced for a
\* SingleConfiguration or JointConfiguration command is strictly ascending
\* and holds exactly the members of its set.
C3_CanonicalOrdering ==
    ( /\ "to_json" \in done
      /\ entry.command.tag = "Some"
      /\ entry.command.val.variant \in BuiltInTags )
    => LET c == entry.command.val
           body == json.v["command"]
           first == body.v[FirstKey(c.variant)].v["instanceIds"].v
           old == body.v["oldConfiguration"].v["instanceIds"].v
       IN  /\ StrictlyAscending(first)
           /\ StrictlyAscending(old)
           /\ {first[n].v : n \in 1..Len(first)} = FirstSet(c)
           /\ {old[n].v : n \in 1..Len(old)} = SecondSet(c)

(* ---------------- C4 ---------------- *)
\* The members of a configuration sub-object are exactly "instanceIds", an
\* array of numbers whose elements are the set S.
HoldsSet(sub, S) ==
    /\ sub.k = "obj" /\ DOMAIN sub.v = {"instanceIds"}
    /\ sub.v["instanceIds"].k = "arr"
    /\ LET a == sub.v["instanceIds"].v
       IN  /\ \A n \in 1..Len(a) : a[n].k = "num"
           /\ {a[n].v : n \in 1..Len(a)} = S

\* C4: for an entry with Some(c), to_json returns an object with exactly the
\* members "term" (the term), "type" (c's tag) and "command" (c's body); the
\* body of a SingleConfiguration has the configuration set under
\* "configuration" and the old one under "oldConfiguration", the body of a
\* JointConfiguration has the new set under "newConfiguration" and the old
\* one under "oldConfiguration".
C4_EntryLayout ==
    ("to_json" \in done /\ entry.command.tag = "Some")
    => LET c == entry.command.val
           body == json.v["command"]
       IN  /\ json.k = "obj"
           /\ DOMAIN json.v = {"term", "type", "command"}
           /\ json.v["term"] = JNum(entry.term)
           /\ body.k = "obj"
           /\ CASE c.variant = "SingleConfiguration" ->
                     /\ json.v["type"] = JStr("SingleConfiguration")
                     /\ DOMAIN body.v = {"configuration", "oldConfiguration"}
                     /\ HoldsSet(body.v["configuration"], c.configuration)
                     /\ HoldsSet(body.v["oldConfiguration"], c.old_configuration)
                [] c.variant = "JointConfiguration" ->
                     /\ json.v["type"] = JStr("JointConfiguration")
                     /\ DOMAIN body.v = {"newConfiguration", "oldConfiguration"}
                     /\ HoldsSet(body.v["newConfiguration"], c.new_configuration)
                     /\ HoldsSet(body.v["oldConfiguration"], c.old_configuration)
                [] c.variant = "Custom" ->
                     /\ json.v["type"] = JStr("PogChamp")
                     /\ DOMAIN body.v = {"payload"}
                     /\ body.v["payload"] = JNum(c.custom.payload)

\* A JointConfiguration with two different non-empty sets has been encoded.
C4_Witness ==
    /\ "to_json" \in done
    /\ entry.command.tag = "Some"
    /\ entry.command.val.variant = "JointConfiguration"
    /\ entry.command.val.new_configuration = {1}
    /\ entry.command.val.old_configuration = {1, 2}

(* ---------------- C5 ---------------- *)
\* C5: an entry without command encodes to the object holding only "term"
\* with the entry's term, and an object holding only "term": t decodes to
\* the entry with term t and no command.
C5_NoCommand ==
    /\ ("to_json" \in done /\ entry.command = None)
         => (json.k = "obj" /\ DOMAIN json.v = {"term"} /\ json.v["term"] = JNum(entry.term))
    /\ ("from" \in done /\ json.k = "obj" /\ DOMAIN json.v = {"term"} /\ TermIsUnsigned(json))
         => decoded = LogEntry(json.v["term"].v, None)

\* An entry with a non-zero term and no command has been encoded and the
\* result decoded.
C5_Witness ==
    /\ mode = "encode"
    /\ {"to_json", "from"} \subseteq done
    /\ entry.command = None
    /\ entry.term > 0
    /\ decoded.term = entry.term

(* ---------------- C6 ---------------- *)
\* What the claim expects of one sub-object: the empty set when it is missing
\* or lacks an "instanceIds" array, the listed ids otherwise.
ExpectedSet(command, key) ==
    IF HasMember(command, key) /\ HasIdArray(command.v[key])
    THEN ListedIds(command.v[key]) ELSE {}

\* C6 (as claimed): with a built-in tag and a "command" object, decoding
\* succeeds; a sub-object that is missing or lacks an "instanceIds" array
\* gives the empty set, and the other set is decoded from its own sub-object.
C6_LenientDefaults ==
    \A tag \in BuiltInTags :
        ( /\ "try_from" \in done
          /\ TypeIs(json, tag)
          /\ HasMember(json, "command")
          /\ json.v["command"].k = "obj" )
        => cmdResult =
             Ok(BuiltIn(tag, ExpectedSet(json.v["command"], "oldConfiguration"),
                             ExpectedSet(json.v["command"], FirstKey(tag))))

(* ---------------- C7 ---------------- *)
\* The "type" member is a string that is neither a built-in tag nor the tag
\* of the custom command type.
UnknownTag(j) ==
    /\ HasMember(j, "type")
    /\ j.v["type"].k = "str"
    /\ j.v["type"].v \notin BuiltInTags \cup {"PogChamp"}

\* C7 (as claimed): decoding a Command fails when there is no "type" member,
\* and fails with another error, one the caller can tell from the first,
\* when "type" is an unknown tag.
C7_DecodeErrors ==
    "try_from" \in done =>
        /\ ~HasMember(json, "type") => cmdResult.tag = "Err"
        /\ UnknownTag(json) =>
             (cmdResult.tag = "Err" /\ cmdResult # Command_try_from(JObj(EmptyMap)))

(* ---------------- C8 ---------------- *)
\* C8: LogEntry::from always returns an entry; its term is the "term" member
\* when that is an unsigned integer and 0 when it is absent or non-numeric;
\* its command is Some(c) exactly when Command::try_from of the same value
\* is Ok(c), None when that fails, and the term does not depend on which.
C8_TotalDecode ==
    /\ "from" \in done =>
         /\ decoded.term \in Nat
         /\ decoded.command.tag \in {"None", "Some"}
         /\ TermIsUnsigned(json) => decoded.term = json.v["term"].v
         /\ TermAbsentOrNonNumeric(json) => decoded.term = 0
    /\ {"from", "try_from"} \subseteq done =>
         /\ cmdResult.tag = "Ok" => decoded.command = Some(cmdResult.val)
         /\ cmdResult.tag = "Err" => decoded.command = None

\* A value with a non-zero term whose command does not decode has been
\* decoded both ways: the term is kept, the command is None.
C8_Witness ==
    /\ mode = "decode"
    /\ {"from", "try_from"} \subseteq done
    /\ cmdResult.tag = "Err"
    /\ TermIsUnsigned(json)
    /\ decoded.term > 0
    /\ decoded.command = None

(* ---------------- C9 ---------------- *)
\* Same terms, and commands both None or both Some of the same variant with
\* equal fields.
StructurallyEqual(a, b) ==
    /\ a.term = b.term
    /\ a.command.tag = b.command.tag
    /\ a.command.tag = "Some" =>
         /\ a.command.val.variant = b.command.val.variant
         /\ a.command.val = b.command.val

\* One command is Custom and the other is built-in, in either order.
CustomAgainstBuiltIn(a, b) ==
    /\ a.command.tag = "Some" /\ b.command.tag = "Some"
    /\ \/ a.command.val.variant = "Custom" /\ b.command.val.variant \in BuiltInTags
       \/ a.command.val.variant \in BuiltInTags /\ b.command.val.variant = "Custom"

C10_MissingCommand ==
    \A tag \in BuiltInTags :
        (TypeIs(json, tag) /\ ~HasMember(json, "command")) =>
            /\ "try_from" \in done => cmdResult.tag = "Err"
            /\ "from" \in done => (decoded.command = None /\ decoded.term = ExpectedTerm(json))

\* A JointConfiguration value with a non-zero term and no "command" member
\* has been decoded both ways.
C10_Witness ==
    /\ {"from", "try_from"} \subseteq done
    /\ TypeIs(json, "JointConfiguration")
    /\ ~HasMember(json, "command")
    /\ decoded.term > 0
    /\ cmdResult.tag = "Err"

====
